---- MODULE Spec2Model ----
(***************************************************************************)
(* Smoke propagation simulator (sim.hpp, main.cpp).                        *)
(*                                                                         *)
(* The state is the host's `simulation` pointer (nullptr or one Sim with   *)
(* its Board), the function-local statics of Sim::cycle (one copy for the  *)
(* whole process, initialised by the first call of cycle()), and the       *)
(* host's status message and breakpoint.  Densities, weights and rates are *)
(* exact rationals <<num, den>> in lowest terms; the float rounding of the *)
(* C++ build is modelled in SpecBinary32 alone, where they are binary32.   *)
(***************************************************************************)
EXTENDS Integers, Sequences, FiniteSets, TLC

(***************************************************************************)
(* Bounds of the model.                                                    *)
(***************************************************************************)
\* getTicks() is capped: a call that would run a full board update is
\* enabled only while ticks < MaxTicks.
MaxTicks == 2
\* tick_rate is drawn from 1..MaxTickRate (the slider of main.cpp allows 1..50).
MaxTickRate == 3
\* The emitter coordinates typed into the host are drawn from -1..MaxCoord.
MaxCoord == 1

(***************************************************************************)
(* Exact rational arithmetic for the float fields.                         *)
(***************************************************************************)
RECURSIVE Gcd(_, _)
Gcd(a, b) == IF b = 0 THEN a ELSE Gcd(b, a % b)

Abs(a) == IF a < 0 THEN -a ELSE a

\* The rational n/d (d > 0) in lowest terms.
Rat(n, d) ==
    LET g == Gcd(Abs(n), d)
    IN  <<n \div g, d \div g>>

RZero == <<0, 1>>
ROne == <<1, 1>>
RQuarter == <<1, 4>>
RHalf == <<1, 2>>

\* The numerator of x over the denominator d (a multiple of x's own).
Over(x, d) == x[1] * (d \div x[2])

\* Least common denominator of x and y.
Lcd(x, y) == (x[2] \div Gcd(x[2], y[2])) * y[2]

RAdd(x, y) == Rat(Over(x, Lcd(x, y)) + Over(y, Lcd(x, y)), Lcd(x, y))
RSub(x, y) == Rat(Over(x, Lcd(x, y)) - Over(y, Lcd(x, y)), Lcd(x, y))
\* The product, with the common factors cancelled before multiplying.
RMul(x, y) ==
    IF x[1] = 0 \/ y[1] = 0
    THEN RZero
    ELSE Rat((x[1] \div Gcd(Abs(x[1]), y[2])) * (y[1] \div Gcd(Abs(y[1]), x[2])),
             (x[2] \div Gcd(Abs(y[1]), x[2])) * (y[2] \div Gcd(Abs(x[1]), y[2])))
RLess(x, y) == Over(x, Lcd(x, y)) < Over(y, Lcd(x, y))
RLeq(x, y) == Over(x, Lcd(x, y)) <= Over(y, Lcd(x, y))
\* std::min(a, b): b < a ? b : a
RMin(a, b) == IF RLess(b, a) THEN b ELSE a

(***************************************************************************)
(* unsigned int (32 bit) as <<high 16 bits, low 16 bits>>.                 *)
(***************************************************************************)
Half16 == 2 ^ 16

\* Conversion of an int to uint (value modulo 2^32).
ToUint(i) ==
    IF i >= 0
    THEN <<i \div Half16, i % Half16>>
    ELSE <<(Half16 - 1) - ((-i - 1) \div Half16), (Half16 - 1) - ((-i - 1) % Half16)>>

\* u + 1 and u - 1 in unsigned arithmetic (wrapping at 2^32).
UintInc(u) ==
    IF u[2] = Half16 - 1
    THEN <<(u[1] + 1) % Half16, 0>>
    ELSE <<u[1], u[2] + 1>>

UintDec(u) ==
    IF u[2] = 0
    THEN <<(u[1] + Half16 - 1) % Half16, Half16 - 1>>
    ELSE <<u[1], u[2] - 1>>

UintLess(u, v) == u[1] < v[1] \/ (u[1] = v[1] /\ u[2] < v[2])

\* The value of a uint known to be below 2^16, as an integer.
UintSmall(u) == u[2]

(***************************************************************************)
(* Cell and Board.                                                         *)
(***************************************************************************)
Wall == "Wall"
Floor == "Floor"
Emitter == "Emitter"
Escape == "Escape"

North == "North"
South == "South"
West == "West"
East == "East"

\* constexpr Dir directions[4]
directions == <<North, South, West, East>>

\* A float field that malloc left unwritten.
Unset == <<0, 0>>

\* The code of one layout character minus 0x30, classified.  Cell::cost is
\* a plain char, signed in the build modelled: it holds -1 as -1.
CharBase == 48

\* Variant: the cost is stored as computed, not clamped to -1 and 10.
CostOfUnclamped(code) == code - CharBase

CostOf(code) ==
    LET cost == code - CharBase
    IN  IF cost <= -1 THEN -1 ELSE IF cost >= 10 THEN 10 ELSE cost

TypeOf(code) ==
    LET cost == code - CharBase
    IN  IF cost <= -1 THEN Wall ELSE IF cost >= 10 THEN Escape ELSE Floor

\* Board::Board: cells in row-major order, index row * width + col.
NewBoard(width, height, layout) ==
    [ width  |-> width,
      height |-> height,
      cells  |-> [ idx \in 0 .. (width * height - 1) |->
                    [ type      |-> TypeOf(layout[idx + 1]),
                      cost      |-> CostOf(layout[idx + 1]),
                      row       |-> idx \div width,
                      col       |-> idx % width,
                      omega_in  |-> Unset,
                      omega_out |-> Unset,
                      density   |-> RZero,
                      outtake   |-> Unset,
                      intake    |-> Unset ] ] ]

NoCell == -1

\* Variant: a coordinate outside the grid wraps around it.
cellAtWrapping(board, row, col) ==
    (row[2] % board.height) * board.width + (col[2] % board.width)

\* Board::cellAt(uint row, uint col): the index of the cell, or NoCell.
\* row < 0 and col < 0 are never true of an unsigned value.
cellAt(board, row, col) ==
    IF \/ ~UintLess(row, ToUint(board.height))
       \/ ~UintLess(col, ToUint(board.width))
    THEN NoCell
    ELSE UintSmall(row) * board.width + UintSmall(col)

\* Board::cellAt(Dir dir, uint row, uint col)
cellAtDir(board, dir, row, col) ==
    CASE dir = North -> cellAt(board, UintDec(row), col)
      [] dir = South -> cellAt(board, UintInc(row), col)
      [] dir = West  -> cellAt(board, row, UintDec(col))
      [] dir = East  -> cellAt(board, row, UintInc(col))

(***************************************************************************)
(* Layout (main.cpp): a file is a sequence of lines, a line a sequence of  *)
(* character codes.                                                        *)
(***************************************************************************)
\* '/' is 47, '0'..'9' are 48..57, ':' is 58
SlashChar == 47
ColonChar == 58
MaxLayoutSize == 512

RECURSIVE Flatten(_)
Flatten(lines) == IF lines = <<>> THEN <<>> ELSE Head(lines) \o Flatten(Tail(lines))

\* Layout::Layout: the loaded layout, or the error it throws.
LoadLayout(file) ==
    LET rows == Len(file)
        cols == IF rows = 0 THEN 0 ELSE Len(file[rows])
        badChar(r) == \E c \in 1 .. Len(file[r]) :
                          file[r][c] < SlashChar \/ file[r][c] > ColonChar
        ragged(r) == r > 1 /\ Len(file[r]) # Len(file[r - 1])
        \* the first line at which the reading loop throws, 0 if none
        firstBad == IF \E r \in 1 .. rows : badChar(r) \/ ragged(r)
                    THEN CHOOSE r \in 1 .. rows :
                            /\ badChar(r) \/ ragged(r)
                            /\ \A q \in 1 .. (r - 1) : ~(badChar(q) \/ ragged(q))
                    ELSE 0
    IN  IF firstBad # 0
        THEN [ ok |-> FALSE,
               what |-> IF badChar(firstBad) THEN "Invalid character detected."
                        ELSE "Each row must have the same number of columns." ]
        ELSE IF rows <= 0 \/ cols <= 0
        THEN [ ok |-> FALSE, what |-> "The layout must not be empty." ]
        ELSE IF rows > MaxLayoutSize \/ cols > MaxLayoutSize
        THEN [ ok |-> FALSE,
               what |-> "The layout must not exceed a size of 512x512 cells." ]
        ELSE [ ok |-> TRUE, rows |-> rows, cols |-> cols, data |-> Flatten(file) ]

(***************************************************************************)
(* Sim: construction.                                                      *)
(***************************************************************************)
Stop == "Stop"
Run == "Run"
Step == "Step"

\* Variant: an Emitter neighbour is not counted as an inflow source.
RECURSIVE CountInsFloorOnly(_, _, _, _)
CountInsFloorOnly(board, row, col, k) ==
    IF k > Len(directions) THEN 0
    ELSE LET adj == cellAtDir(board, directions[k], ToUint(row), ToUint(col))
             rest == CountInsFloorOnly(board, row, col, k + 1)
         IN  IF adj = NoCell THEN rest
             ELSE IF board.cells[adj].type = Floor THEN rest + 1
             ELSE rest

\* The counts ins and outs of Sim::Sim over the neighbours dirs[k..4].
RECURSIVE CountIns(_, _, _, _)
CountIns(board, row, col, k) ==
    IF k > Len(directions) THEN 0
    ELSE LET adj == cellAtDir(board, directions[k], ToUint(row), ToUint(col))
             rest == CountIns(board, row, col, k + 1)
         IN  IF adj = NoCell THEN rest
             ELSE IF board.cells[adj].type \in {Floor, Emitter} THEN rest + 1
             ELSE rest

RECURSIVE CountOuts(_, _, _, _)
CountOuts(board, row, col, k) ==
    IF k > Len(directions) THEN 0
    ELSE LET adj == cellAtDir(board, directions[k], ToUint(row), ToUint(col))
             rest == CountOuts(board, row, col, k + 1)
         IN  IF adj = NoCell THEN rest
             ELSE IF board.cells[adj].type \in {Floor, Escape} THEN rest + 1
             ELSE rest

\* The weight loop of Sim::Sim: omega_in and omega_out of every cell.
WithWeights(board) ==
    [ board EXCEPT !.cells =
        [ idx \in DOMAIN board.cells |->
            LET cur == board.cells[idx]
                ins == CountIns(board, cur.row, cur.col, 1)
                outs == CountOuts(board, cur.row, cur.col, 1)
            IN  [ cur EXCEPT
                    !.omega_in = IF ins = 0 THEN RZero ELSE Rat(1, ins),
                    !.omega_out = IF outs = 0 THEN RZero ELSE Rat(1, outs) ] ] ]

\* The emitter placement of Sim::Sim on the cell with index emitter.
PlaceEmitter(board, emitter) ==
    [ board EXCEPT !.cells[emitter].type = Emitter,
                   !.cells[emitter].density = ROne ]

\* Variant: the upper bound of the cost is not checked.
OnFloorTileNoUpperBound(cell) == ~(cell.cost < 0)

\* Line 165 negated: the emitter may be placed on this cell.
OnFloorTile(cell) == ~(cell.cost < 0 \/ cell.cost > 9)

\* Variant: the weights are computed before the emitter is placed.
NewSimWeightsFirst(board_width, board_height, layout, emitter_row, emitter_col) ==
    LET board == NewBoard(board_width, board_height, layout)
        emitter == cellAt(board, emitter_row, emitter_col)
    IN  IF emitter = NoCell
        THEN [ ok |-> FALSE, what |-> "Emitter coordinates out of bounds." ]
        ELSE IF ~OnFloorTile(board.cells[emitter])
        THEN [ ok |-> FALSE, what |-> "Emitter not on floor tile." ]
        ELSE [ ok |-> TRUE,
               sim |-> [ board               |-> PlaceEmitter(WithWeights(board), emitter),
                         state               |-> Stop,
                         ticks               |-> 0,
                         tick_rate           |-> 1,
                         emitter_rate        |-> ROne,
                         escape_rate         |-> ROne,
                         use_precalc_weights |-> FALSE ] ]

\* Sim::Sim: the new Sim, or the runtime_error it throws.  emitter_row and
\* emitter_col are the uint parameters.
NewSim(board_width, board_height, layout, emitter_row, emitter_col) ==
    LET board == NewBoard(board_width, board_height, layout)
        emitter == cellAt(board, emitter_row, emitter_col)
    IN  IF emitter = NoCell
        THEN [ ok |-> FALSE, what |-> "Emitter coordinates out of bounds." ]
        ELSE IF ~OnFloorTile(board.cells[emitter])
        THEN [ ok |-> FALSE, what |-> "Emitter not on floor tile." ]
        ELSE [ ok |-> TRUE,
               sim |-> [ board               |-> WithWeights(PlaceEmitter(board, emitter)),
                         state               |-> Stop,
                         ticks               |-> 0,
                         tick_rate           |-> 1,
                         emitter_rate        |-> ROne,
                         escape_rate         |-> ROne,
                         use_precalc_weights |-> FALSE ] ]

(***************************************************************************)
(* Sim::cycle: the full board update.                                      *)
(***************************************************************************)
\* The weights a cell is given (lines 242-251 for cur, 261-267 for adj).
WeightOut(cell, use_precalc_weights) ==
    IF use_precalc_weights THEN cell.omega_out ELSE RQuarter

\* Variant: the precomputed weight is used whatever the mode.
WeightInPrecalcOnly(cell, use_precalc_weights) == cell.omega_in

WeightIn(cell, use_precalc_weights) ==
    IF use_precalc_weights THEN cell.omega_in ELSE RQuarter

\* Variant: a Wall neighbour takes mass as a Floor neighbour does.
AdjIntakeIntoWall(c, a, escape_rate, use_precalc_weights) ==
    CASE a.type \in {Floor, Wall} ->
            RMin(RMul(WeightOut(c, use_precalc_weights), c.density),
                 RMul(WeightIn(a, use_precalc_weights), RSub(ROne, a.density)))
      [] a.type = Escape ->
            RMul(RMul(escape_rate, WeightOut(c, use_precalc_weights)), c.density)
      [] OTHER -> RZero

\* adj->intake as the switch on adj->type leaves it (0 where it is not
\* assigned), for the Floor cell c under update and its neighbour a.
AdjIntake(c, a, escape_rate, use_precalc_weights) ==
    CASE a.type = Floor ->
            RMin(RMul(WeightOut(c, use_precalc_weights), c.density),
                 RMul(WeightIn(a, use_precalc_weights), RSub(ROne, a.density)))
      [] a.type = Escape ->
            RMul(RMul(escape_rate, WeightOut(c, use_precalc_weights)), c.density)
      [] OTHER -> RZero

\* Variant: the emitter's push is not capped by the capacity left in cur.
AdjOuttakeUncapped(c, a, emitter_rate, use_precalc_weights) ==
    CASE a.type = Floor ->
            RMin(RMul(WeightOut(a, use_precalc_weights), a.density),
                 RMul(WeightIn(c, use_precalc_weights), RSub(ROne, c.density)))
      [] a.type = Emitter ->
            RMul(emitter_rate, RMul(WeightOut(a, use_precalc_weights), a.density))
      [] OTHER -> RZero

\* adj->outtake as the switch on adj->type leaves it.
AdjOuttake(c, a, emitter_rate, use_precalc_weights) ==
    CASE a.type = Floor ->
            RMin(RMul(WeightOut(a, use_precalc_weights), a.density),
                 RMul(WeightIn(c, use_precalc_weights), RSub(ROne, c.density)))
      [] a.type = Emitter ->
            RMul(emitter_rate,
                 RMin(RMul(WeightOut(a, use_precalc_weights), a.density),
                      RMul(WeightIn(c, use_precalc_weights), RSub(ROne, c.density))))
      [] OTHER -> RZero

\* Variant: the exchange also moves the mass into and out of the neighbour.
ExchangeMovingMass(board, cur, adj, adj_intake, adj_outtake) ==
    [ board EXCEPT
        !.cells[adj].intake = adj_intake,
        !.cells[adj].outtake = adj_outtake,
        !.cells[adj].density = RAdd(@, RSub(adj_intake, adj_outtake)),
        !.cells[cur].intake = RAdd(@, adj_outtake),
        !.cells[cur].outtake = RAdd(@, adj_intake) ]

\* Lines 268-294 for the neighbour with index adj: adj gets its intake and
\* outtake, and cur accumulates them.
Exchange(board, cur, adj, adj_intake, adj_outtake) ==
    [ board EXCEPT
        !.cells[adj].intake = adj_intake,
        !.cells[adj].outtake = adj_outtake,
        !.cells[cur].intake = RAdd(@, adj_outtake),
        !.cells[cur].outtake = RAdd(@, adj_intake) ]

ExchangeWith(board, cur, adj, emitter_rate, escape_rate, use_precalc_weights) ==
    IF adj = NoCell THEN board
    ELSE Exchange(board, cur, adj,
                  AdjIntake(board.cells[cur], board.cells[adj],
                            escape_rate, use_precalc_weights),
                  AdjOuttake(board.cells[cur], board.cells[adj],
                             emitter_rate, use_precalc_weights))

\* One pass of the loop over directions for the Floor cell with index cur.
VisitNeighbour(board, cur, dir, emitter_rate, escape_rate, use_precalc_weights) ==
    ExchangeWith(board, cur,
                 cellAtDir(board, dir, ToUint(board.cells[cur].row),
                           ToUint(board.cells[cur].col)),
                 emitter_rate, escape_rate, use_precalc_weights)

\* The loop `for (auto dir : directions)` from the k-th direction on.
RECURSIVE VisitNeighbours(_, _, _, _, _, _)
VisitNeighbours(board, cur, k, emitter_rate, escape_rate, use_precalc_weights) ==
    IF k > Len(directions) THEN board
    ELSE VisitNeighbours(
            VisitNeighbour(board, cur, directions[k],
                           emitter_rate, escape_rate, use_precalc_weights),
            cur, k + 1, emitter_rate, escape_rate, use_precalc_weights)

\* Line 296: cur->density += cur->intake - cur->outtake
NewDensity(cell) == RAdd(cell.density, RSub(cell.intake, cell.outtake))

WithNewDensity(board, cur) ==
    [ board EXCEPT !.cells[cur].density = NewDensity(board.cells[cur]) ]

\* Variant: the weights are cleared with the scratch fields.
ResetScratchAndWeights(board, cur) ==
    [ board EXCEPT !.cells[cur].intake = RZero, !.cells[cur].outtake = RZero,
                   !.cells[cur].omega_in = RZero, !.cells[cur].omega_out = RZero ]

\* Lines 252-253
ResetScratch(board, cur) ==
    [ board EXCEPT !.cells[cur].intake = RZero, !.cells[cur].outtake = RZero ]

\* Variant: the exchange runs for a cell of any type, not for Floor alone.
UpdateCellOfAnyType(board, cur, emitter_rate, escape_rate, use_precalc_weights) ==
    WithNewDensity(
        VisitNeighbours(ResetScratch(board, cur), cur, 1, emitter_rate,
                        escape_rate, use_precalc_weights),
        cur)

\* The body of the scan for the cell with index cur.
UpdateCell(board, cur, emitter_rate, escape_rate, use_precalc_weights) ==
    IF board.cells[cur].type = Floor
    THEN WithNewDensity(
            VisitNeighbours(ResetScratch(board, cur), cur, 1, emitter_rate,
                            escape_rate, use_precalc_weights),
            cur)
    ELSE ResetScratch(board, cur)

\* The scan at position pos, whose cell has index cur, and on from there.
RECURSIVE ScanFrom(_, _, _, _, _)
ScanAt(board, pos, cur, emitter_rate, escape_rate, use_precalc_weights) ==
    IF cur = NoCell
    THEN [ board |-> board, thrown |-> TRUE ]
    ELSE ScanFrom(UpdateCell(board, cur, emitter_rate, escape_rate,
                             use_precalc_weights),
                  pos + 1, emitter_rate, escape_rate, use_precalc_weights)

\* The row-major scan from position pos on; thrown is TRUE when cellAt gave
\* no cell for a position of the scan ("Unexpected missing Cell").
ScanFrom(board, pos, emitter_rate, escape_rate, use_precalc_weights) ==
    IF pos >= board.width * board.height
    THEN [ board |-> board, thrown |-> FALSE ]
    ELSE ScanAt(board, pos,
                cellAt(board, ToUint(pos \div board.width), ToUint(pos % board.width)),
                emitter_rate, escape_rate, use_precalc_weights)

\* Variant: a double-buffered update, every cell computed from the board as
\* it was before the scan.
DoubleBuffered(board, emitter_rate, escape_rate, use_precalc_weights) ==
    [ board  |-> [ board EXCEPT !.cells =
                    [ idx \in DOMAIN board.cells |->
                        UpdateCell(board, idx, emitter_rate, escape_rate,
                                   use_precalc_weights).cells[idx] ] ],
      thrown |-> FALSE ]

FullBoardUpdate(board, emitter_rate, escape_rate, use_precalc_weights) ==
    ScanFrom(board, 0, emitter_rate, escape_rate, use_precalc_weights)

(***************************************************************************)
(* Sim::cycle.  Its statics frame_skip_counter, emitter_rate, escape_rate  *)
(* and use_precalc_weights are function-local: one copy for the process,   *)
(* initialised from the Sim on which cycle() is called first.              *)
(***************************************************************************)
NoStatics ==
    [ initialized         |-> FALSE,
      frame_skip_counter  |-> 0,
      emitter_rate        |-> Unset,
      escape_rate         |-> Unset,
      use_precalc_weights |-> FALSE ]

\* Variant: the counter starts at 0, not at tick_rate.
InitStaticsCounterZero(sim, st) ==
    IF st.initialized THEN st
    ELSE [ initialized         |-> TRUE,
           frame_skip_counter  |-> 0,
           emitter_rate        |-> sim.emitter_rate,
           escape_rate         |-> sim.escape_rate,
           use_precalc_weights |-> sim.use_precalc_weights ]

\* Lines 222-225: the initialisers run on the first call only.
InitStatics(sim, st) ==
    IF st.initialized THEN st
    ELSE [ initialized         |-> TRUE,
           frame_skip_counter  |-> sim.tick_rate,
           emitter_rate        |-> sim.emitter_rate,
           escape_rate         |-> sim.escape_rate,
           use_precalc_weights |-> sim.use_precalc_weights ]

\* Variant: the counter is decremented whatever the state.
DecrementedInAnyState(sim, st) ==
    [ st EXCEPT !.frame_skip_counter = st.frame_skip_counter - 1 ]

\* Lines 229-231: TRUE when cycle() returns before the scan; the counter is
\* decremented only when the state is Run.
Decremented(sim, st) ==
    IF sim.state = Run
    THEN [ st EXCEPT !.frame_skip_counter = st.frame_skip_counter - 1 ]
    ELSE st

\* Variant: the counter is compared before it is decremented
\* ((frame_skip_counter--) != 0).
ReturnsEarlyPostDecrement(sim, st) ==
    \/ sim.state = Stop
    \/ sim.state = Run /\ st.frame_skip_counter # 0

\* Variant: the counter gates every state but Stop, SteppingOnce included.
ReturnsEarlyWhenStepping(sim, st) ==
    \/ sim.state = Stop
    \/ st.frame_skip_counter - 1 # 0

ReturnsEarly(sim, st) ==
    \/ sim.state = Stop
    \/ sim.state = Run /\ Decremented(sim, st).frame_skip_counter # 0

\* Variant: the scan is not counted.
AfterScanNoTick(sim, st, board) ==
    [ sim |-> [ sim EXCEPT !.board = board ],
      statics |->
        [ st EXCEPT
            !.frame_skip_counter = IF sim.state = Run THEN sim.tick_rate ELSE @,
            !.emitter_rate = sim.emitter_rate,
            !.escape_rate = sim.escape_rate,
            !.use_precalc_weights = sim.use_precalc_weights ],
      updated |-> TRUE,
      thrown |-> FALSE ]

\* Variant: the counter is not reset after the scan.
AfterScanNoReset(sim, st, board) ==
    [ sim |-> [ sim EXCEPT !.board = board, !.ticks = sim.ticks + 1 ],
      statics |->
        [ st EXCEPT
            !.emitter_rate = sim.emitter_rate,
            !.escape_rate = sim.escape_rate,
            !.use_precalc_weights = sim.use_precalc_weights ],
      updated |-> TRUE,
      thrown |-> FALSE ]

\* Lines 313-319: what follows the scan.
AfterScan(sim, st, board) ==
    [ sim |-> [ sim EXCEPT !.board = board, !.ticks = sim.ticks + 1 ],
      statics |->
        [ st EXCEPT
            !.frame_skip_counter = IF sim.state = Run THEN sim.tick_rate ELSE @,
            !.emitter_rate = sim.emitter_rate,
            !.escape_rate = sim.escape_rate,
            !.use_precalc_weights = sim.use_precalc_weights ],
      updated |-> TRUE,
      thrown |-> FALSE ]

\* The scan threw: the cells updated so far keep their values, and nothing
\* after the scan is executed.
Thrown(sim, st, board) ==
    [ sim |-> [ sim EXCEPT !.board = board ],
      statics |-> st, updated |-> FALSE, thrown |-> TRUE ]

Scanned(sim, st, scan) ==
    IF scan.thrown THEN Thrown(sim, st, scan.board)
    ELSE AfterScan(sim, st, scan.board)

\* Variant: the scan uses the Sim's fields as they are at the call, not the
\* latched ones.
CycleBodyUnlatched(sim, st) ==
    IF ReturnsEarly(sim, st)
    THEN [ sim |-> sim, statics |-> Decremented(sim, st),
           updated |-> FALSE, thrown |-> FALSE ]
    ELSE Scanned(sim, Decremented(sim, st),
                 FullBoardUpdate(sim.board, sim.emitter_rate, sim.escape_rate,
                                 sim.use_precalc_weights))

\* Lines 229-320 with the statics st already initialised.
CycleBody(sim, st) ==
    IF ReturnsEarly(sim, st)
    THEN [ sim |-> sim, statics |-> Decremented(sim, st),
           updated |-> FALSE, thrown |-> FALSE ]
    ELSE Scanned(sim, Decremented(sim, st),
                 FullBoardUpdate(sim.board, st.emitter_rate, st.escape_rate,
                                 st.use_precalc_weights))

\* Sim::cycle on sim with the statics st: the Sim and the statics after the
\* call, whether the scan ran to its end, and whether the call threw.
Cycle(sim, st) == CycleBody(sim, InitStatics(sim, st))

\* Line 324, not reached when cycle() throws.
StepReturn(r) == IF r.thrown THEN r ELSE [ r EXCEPT !.sim.state = Stop ]

\* Sim::step
StepCall(sim, st) == StepReturn(Cycle([ sim EXCEPT !.state = Step ], st))

\* Sim::start and Sim::stop
StartCall(sim) == [ sim EXCEPT !.state = Run ]

StopCall(sim) == [ sim EXCEPT !.state = Stop ]

\* Variant: every state but Stop counts as running.
isRunningUnlessStopped(sim) == sim.state # Stop

\* Sim::isRunning
isRunning(sim) == sim.state = Run

\* Sim::getTicks
getTicks(sim) == sim.ticks

(***************************************************************************)
(* The process: main.cpp holds one Sim at a time.                          *)
(***************************************************************************)
VARIABLES
    simulation,     \* main's Sim* simulation: NoSim (nullptr) or the Sim
    statics,        \* the statics of Sim::cycle
    ui_status_msg,  \* main's status line
    ui_breakpoint,  \* main's breakpoint, in frames
    last_call       \* history: the last call made, and whether it ran a full board update

vars == <<simulation, statics, ui_status_msg, ui_breakpoint, last_call>>

\* nullptr
NoSim == [ nullptr |-> TRUE ]

\* The layout files the host is pointed at: "00:", "05" over "/:", "0:",
\* "000:", and a file whose rows differ in length.
LayoutFiles ==
    { << <<48, 48, 58>> >>,
      << <<48, 53>>, <<47, 58>> >>,
      << <<48, 58>> >>,
      << <<48, 48>>, <<48>> >> }

EmitterCoords == -1 .. MaxCoord
TickRates == 1 .. MaxTickRate

Config(emitter_rate, escape_rate, use_precalc_weights) ==
    [ emitter_rate |-> emitter_rate, escape_rate |-> escape_rate,
      use_precalc_weights |-> use_precalc_weights ]

\* The values the configuration fields are set to: the defaults of Sim, the
\* defaults with precalculated weights, and halved rates.
Configs ==
    { Config(ROne, ROne, FALSE), Config(ROne, ROne, TRUE), Config(RHalf, RHalf, TRUE) }

\* The history variable's values: the call, whether it ran a full board update
\* to its end, and for "new" the file and the coordinates it was given.
CalledWith(op, updated, input) == [ op |-> op, updated |-> updated, input |-> input ]

Called(op, updated) == CalledWith(op, updated, <<>>)

Init ==
    /\ simulation = NoSim
    /\ statics = NoStatics
    /\ ui_status_msg = "Ready."
    /\ ui_breakpoint = 0
    /\ last_call = Called("none", FALSE)

\* The handler of the "New Simulation" button up to the assignment of
\* simulation: the layout is loaded and the Sim constructed from it and the
\* typed coordinates (int, converted to uint); either may throw.
Construct(file, row, col) ==
    LET layout == LoadLayout(file)
        made == NewSim(layout.cols, layout.rows, layout.data,
                       ToUint(row), ToUint(col))
    IN  IF ~layout.ok THEN layout
        ELSE made

\* What the button can produce from the files and coordinates of the model.
Constructions ==
    { [ file |-> file, row |-> row, col |-> col, made |-> Construct(file, row, col) ] :
        file \in LayoutFiles, row \in EmitterCoords, col \in EmitterCoords }

\* The "New Simulation" button: delete simulation, construct, and on an
\* exception show its message and leave simulation at nullptr.
NewSimulation(c) ==
    /\ IF c.made.ok
       THEN /\ simulation' = c.made.sim
            /\ ui_status_msg' = "Simulation initialized."
       ELSE /\ simulation' = NoSim
            /\ ui_status_msg' = c.made.what
    /\ last_call' = CalledWith("new", FALSE, <<c.file, c.row, c.col>>)
    /\ UNCHANGED <<statics, ui_breakpoint>>

start ==
    /\ simulation # NoSim
    /\ simulation' = StartCall(simulation)
    /\ last_call' = Called("start", FALSE)
    /\ UNCHANGED <<statics, ui_status_msg, ui_breakpoint>>

stop ==
    /\ simulation # NoSim
    /\ simulation' = StopCall(simulation)
    /\ last_call' = Called("stop", FALSE)
    /\ UNCHANGED <<statics, ui_status_msg, ui_breakpoint>>

\* Whether cycle() on sim would run the scan.
WouldScan(sim, st) == ~ReturnsEarly(sim, InitStatics(sim, st))

\* The host's catch block: stop() and the message.
Caught(r, msg) ==
    [ sim |-> IF r.thrown THEN StopCall(r.sim) ELSE r.sim,
      msg |-> IF r.thrown
              THEN "Unexpected missing Cell in valid location."
              ELSE msg ]

\* Variant: the breakpoint is counted down to 0 and the Sim runs on.
BreakpointCheckWithoutStop(sim, breakpoint, msg) ==
    IF isRunning(sim) /\ breakpoint > 0
    THEN [ sim |-> sim, breakpoint |-> breakpoint - 1, msg |-> msg ]
    ELSE [ sim |-> sim, breakpoint |-> IF breakpoint < 0 THEN 0 ELSE breakpoint,
           msg |-> msg ]

\* main.cpp, lines 215-229: after cycle() the host takes 1 off a positive
\* breakpoint while the Sim is running and stops the Sim when that gives 0;
\* then it sets a negative breakpoint to 0.
BreakpointCheck(sim, breakpoint, msg) ==
    IF isRunning(sim) /\ breakpoint > 0
    THEN IF breakpoint - 1 = 0
         THEN [ sim |-> StopCall(sim), breakpoint |-> 0,
                msg |-> "Breakpoint reached." ]
         ELSE [ sim |-> sim, breakpoint |-> breakpoint - 1, msg |-> msg ]
    ELSE [ sim |-> sim, breakpoint |-> IF breakpoint < 0 THEN 0 ELSE breakpoint,
           msg |-> msg ]

\* The rest of the frame after simulation->cycle() has returned r.
FrameEnds(r, checked) ==
    /\ simulation' = checked.sim
    /\ statics' = r.statics
    /\ ui_status_msg' = checked.msg
    /\ ui_breakpoint' = checked.breakpoint
    /\ last_call' = Called("cycle", r.updated)

CycleReturns(r) ==
    FrameEnds(r, BreakpointCheck(Caught(r, ui_status_msg).sim, ui_breakpoint,
                                 Caught(r, ui_status_msg).msg))

\* simulation->cycle() in the host's try block, and the frame's end.
cycle ==
    /\ simulation # NoSim
    /\ WouldScan(simulation, statics) => simulation.ticks < MaxTicks
    /\ CycleReturns(Cycle(simulation, statics))

StepReturns(r) ==
    /\ simulation' = r.sim
    /\ statics' = r.statics
    /\ last_call' = Called("step", r.updated)

\* simulation->step()
step ==
    /\ simulation # NoSim
    /\ simulation.ticks < MaxTicks
    /\ StepReturns(StepCall(simulation, statics))
    /\ UNCHANGED <<ui_status_msg, ui_breakpoint>>

\* The configuration fields are public: the host's widgets write them.
SetTickRate(n) ==
    /\ simulation # NoSim
    /\ simulation' = [ simulation EXCEPT !.tick_rate = n ]
    /\ last_call' = Called("configure", FALSE)
    /\ UNCHANGED <<statics, ui_status_msg, ui_breakpoint>>

\* emitter_rate, escape_rate and use_precalc_weights, written between two
\* calls of cycle().
Configure(cfg) ==
    /\ simulation # NoSim
    /\ simulation' = [ simulation EXCEPT !.emitter_rate = cfg.emitter_rate,
                                         !.escape_rate = cfg.escape_rate,
                                         !.use_precalc_weights = cfg.use_precalc_weights ]
    /\ last_call' = Called("configure", FALSE)
    /\ UNCHANGED <<statics, ui_status_msg, ui_breakpoint>>

Next ==
    \/ \E c \in Constructions : NewSimulation(c)
    \/ start
    \/ stop
    \/ cycle
    \/ step
    \/ \E n \in TickRates : SetTickRate(n)
    \/ \E cfg \in Configs : Configure(cfg)

Spec == Init /\ [][Next]_vars

(***************************************************************************)
(* Properties.                                                             *)
(***************************************************************************)
Alive == simulation # NoSim

States == { Stop, Run, Step }

\* The Sim after k consecutive calls of cycle(), and the statics then.
RECURSIVE AfterCycles(_, _, _)
AfterCycles(sim, st, k) ==
    IF k = 0 THEN [ sim |-> sim, statics |-> st ]
    ELSE AfterCycles(Cycle(sim, st).sim, Cycle(sim, st).statics, k - 1)

\* getTicks() after k consecutive calls of cycle() from the current state.
TicksAfterCycles(k) == getTicks(AfterCycles(simulation, statics, k).sim)

\* The frame-skip counter the next call of cycle() finds: the static, or
\* the initialiser of the first call.
CounterNow == InitStatics(simulation, statics).frame_skip_counter

\* C1 as claimed: whenever the Sim is in Run with tick_rate = N, the next
\* N - 1 calls of cycle() leave getTicks() unchanged and the N-th adds 1.
C1_ThrottleByTickRate ==
    (Alive /\ simulation.state = Run) =>
        /\ \A k \in 1 .. (simulation.tick_rate - 1) :
              TicksAfterCycles(k) = getTicks(simulation)
        /\ TicksAfterCycles(simulation.tick_rate) = getTicks(simulation) + 1

\* C1 as amended: whenever the Sim is in Run and the frame-skip counter
\* holds K, then K >= 1, the next K - 1 calls of cycle() leave getTicks()
\* unchanged and the K-th adds exactly 1; and right after a call of cycle()
\* that ran a full board update in Run the counter is tick_rate.
C1_ThrottleByCounter ==
    (Alive /\ simulation.state = Run) =>
        /\ CounterNow >= 1
        /\ \A k \in 1 .. (CounterNow - 1) :
              TicksAfterCycles(k) = getTicks(simulation)
        /\ TicksAfterCycles(CounterNow) = getTicks(simulation) + 1
        /\ last_call = Called("cycle", TRUE) => CounterNow = simulation.tick_rate

\* A call of cycle() in Run has just run the second full board update, and
\* the counter is reset to a tick_rate of 2 or more.
C1_Witness ==
    /\ Alive
    /\ simulation.state = Run
    /\ last_call = Called("cycle", TRUE)
    /\ simulation.tick_rate >= 2
    /\ statics.frame_skip_counter = simulation.tick_rate
    /\ getTicks(simulation) >= 2

\* What step() must have done to the Sim before, r being what it returned
\* and updated the board after one full board update.
SteppedOnce(before, r, updated) ==
    /\ r.updated
    /\ getTicks(r.sim) = getTicks(before) + 1
    /\ r.sim.board = updated
    /\ r.sim.state = Stop
    /\ ~isRunning(r.sim)

\* The board of sim after one full board update with the configuration the
\* statics st latch.
UpdatedBoard(sim, st) ==
    FullBoardUpdate(sim.board, st.emitter_rate, st.escape_rate,
                    st.use_precalc_weights).board

SteppedOnceFromAll(updated) ==
    \A s \in States :
        SteppedOnce(simulation,
                    StepCall([ simulation EXCEPT !.state = s ], statics),
                    updated)

\* C2: step() from any run-state, with any tick_rate and any value of the
\* frame-skip counter, runs exactly one full board update (the scan with the
\* latched rates and weight mode, getTicks() + 1) and leaves the state Stop
\* and isRunning() false.
C2_StepOnce ==
    Alive =>
        SteppedOnceFromAll(UpdatedBoard(simulation, InitStatics(simulation, statics)))

\* step() was called in Run in the middle of a countdown: the state is Stop,
\* a tick was counted and the counter still holds a value below tick_rate.
C2_Witness ==
    /\ Alive
    /\ last_call = Called("step", TRUE)
    /\ simulation.state = Stop
    /\ getTicks(simulation) >= 1
    /\ statics.frame_skip_counter >= 2
    /\ statics.frame_skip_counter < simulation.tick_rate

\* C8: a new Sim is in Stop; from each of the three states start() leads to
\* Run and stop() to Stop, cycle() leaves the state as it is, and isRunning()
\* is true exactly in Run.
C8_RunStateMachine ==
    /\ \A c \in Constructions : c.made.ok => c.made.sim.state = Stop
    /\ (last_call.op = "new" /\ Alive) => simulation.state = Stop
    /\ Alive =>
        \A s \in States :
            LET sim == [ simulation EXCEPT !.state = s ]
            IN  /\ StartCall(sim).state = Run
                /\ StopCall(sim).state = Stop
                /\ Cycle(sim, statics).sim.state = s
                /\ isRunning(sim) <=> (s = Run)

\* start() was called on a stopped Sim that had ticked, and it is running.
C8_Witness ==
    /\ Alive
    /\ last_call = Called("start", FALSE)
    /\ simulation.state = Run
    /\ isRunning(simulation)
    /\ getTicks(simulation) >= 1

(***************************************************************************)
(* The board update from arbitrary densities: a Sim of a fresh process     *)
(* whose Floor cells hold any of StartDensities and whose configuration is *)
(* any of AllConfigs, stepped.                                             *)
(***************************************************************************)
AllRates == { RZero, RHalf, ROne }
StartDensities == { RZero, RHalf, ROne }
AllConfigs ==
    { Config(er, sr, pw) : er \in AllRates, sr \in AllRates, pw \in BOOLEAN }

\* The layouts: every layout of the shapes <<height, width>> of UpdateShapes
\* over the codes '/', '0', ':', and two crosses of three rows, whose centre
\* has four neighbours.
UpdateShapes == { <<1, 2>>, <<1, 3>>, <<2, 2>> }
UpdateCodes == { SlashChar, CharBase, ColonChar }

Crosses ==
    { <<47, 48, 47,  48, 48, 48,  47, 48, 47>>,
      <<47, 48, 47,  48, 48, 48,  47, 58, 47>> }

UpdateLayouts ==
    UNION { { [ height |-> sh[1], width |-> sh[2], data |-> l ] :
                l \in [ 1 .. (sh[1] * sh[2]) -> UpdateCodes ] } : sh \in UpdateShapes }
    \cup { [ height |-> 3, width |-> 3, data |-> l ] : l \in Crosses }

UpdateConstructed ==
    UNION { { NewSim(l.width, l.height, l.data, ToUint(row), ToUint(col)) :
                row \in 0 .. (l.height - 1), col \in 0 .. (l.width - 1) } :
            l \in UpdateLayouts }

FloorCells(board) == { idx \in DOMAIN board.cells : board.cells[idx].type = Floor }

\* sim with the densities dens on its Floor cells and the configuration cfg.
Prepared(sim, dens, cfg) ==
    [ sim EXCEPT
        !.board.cells = [ idx \in DOMAIN sim.board.cells |->
                            IF idx \in DOMAIN dens
                            THEN [ sim.board.cells[idx] EXCEPT !.density = dens[idx] ]
                            ELSE sim.board.cells[idx] ],
        !.emitter_rate = cfg.emitter_rate,
        !.escape_rate = cfg.escape_rate,
        !.use_precalc_weights = cfg.use_precalc_weights ]

UpdateMade == { m \in UpdateConstructed : m.ok }

InitUpdate ==
    /\ \E made \in UpdateMade :
          \E dens \in [ FloorCells(made.sim.board) -> StartDensities ] :
             \E cfg \in AllConfigs :
                simulation = Prepared(made.sim, dens, cfg)
    /\ statics = NoStatics
    /\ ui_status_msg = "Ready."
    /\ ui_breakpoint = 0
    /\ last_call = Called("none", FALSE)

SpecUpdate == InitUpdate /\ [][step]_vars

\* C3: with the rates in [0,1] and the densities starting in [0,1], every
\* Floor cell's density is in [0,1] after every full board update, for both
\* weight modes and every layout.
C3_FloorDensityInRange ==
    Alive =>
        \A idx \in FloorCells(simulation.board) :
            /\ RLeq(RZero, simulation.board.cells[idx].density)
            /\ RLeq(simulation.board.cells[idx].density, ROne)

\* Two board updates have run and left a Floor cell full and another one
\* partly filled.
C3_Witness ==
    /\ Alive
    /\ last_call = Called("step", TRUE)
    /\ getTicks(simulation) >= 2
    /\ \E i, j \in FloorCells(simulation.board) :
          /\ simulation.board.cells[i].density = ROne
          /\ RLess(RZero, simulation.board.cells[j].density)
          /\ RLess(simulation.board.cells[j].density, ROne)

(***************************************************************************)
(* The acceptance scenario: height 1, width 3, {Floor, Floor, Escape},     *)
(* emitter at column 0.                                                    *)
(***************************************************************************)
ScenarioBoard ==
    /\ Alive
    /\ simulation.board.width = 3
    /\ simulation.board.height = 1
    /\ simulation.board.cells[0].type = Emitter
    /\ simulation.board.cells[1].type = Floor
    /\ simulation.board.cells[2].type = Escape

ScenarioConfig ==
    /\ simulation.emitter_rate = ROne
    /\ simulation.escape_rate = ROne
    /\ simulation.use_precalc_weights = TRUE

\* The Sim after k consecutive calls of step().
RECURSIVE AfterSteps(_, _, _)
AfterSteps(sim, st, k) ==
    IF k = 0 THEN [ sim |-> sim, statics |-> st ]
    ELSE AfterSteps(StepCall(sim, st).sim, StepCall(sim, st).statics, k - 1)

ScenarioTicks == 4

\* C4 as claimed: in the scenario, configured before the first tick and left
\* so, cell 1 holds 1.0 after every odd tick and 0.0 after every even tick.
C4_Oscillation ==
    (ScenarioBoard /\ ScenarioConfig /\ getTicks(simulation) = 0) =>
        \A k \in 1 .. ScenarioTicks :
            AfterSteps(simulation, statics, k).sim.board.cells[1].density =
                IF k % 2 = 1 THEN ROne ELSE RZero

\* C5 as claimed: in the scenario the weights are (0, 1), (1, 1), (1, 1).
C5_WeightsAsClaimed ==
    ScenarioBoard =>
        /\ simulation.board.cells[0].omega_in = RZero
        /\ simulation.board.cells[0].omega_out = ROne
        /\ simulation.board.cells[1].omega_in = ROne
        /\ simulation.board.cells[1].omega_out = ROne
        /\ simulation.board.cells[2].omega_in = ROne
        /\ simulation.board.cells[2].omega_out = ROne

\* C5 as amended: in the scenario every cell has omega_in = 1 and
\* omega_out = 1; the Emitter's only neighbour is a Floor cell, which counts
\* as an inflow source and as an outflow sink.
C5_Weights ==
    ScenarioBoard =>
        \A idx \in 0 .. 2 :
            /\ simulation.board.cells[idx].omega_in = ROne
            /\ simulation.board.cells[idx].omega_out = ROne

\* The scenario's Sim has just been constructed.
C5_Witness == ScenarioBoard /\ last_call.op = "new"

\* C6 as claimed: a Sim shares nothing with the Sims before it; started and
\* cycled right after its construction, it ticks and exchanges as it does in
\* a process where cycle() was never called.
C6_NoSharedState ==
    (Alive /\ last_call.op = "new") =>
        Cycle(StartCall(simulation), statics).sim =
            Cycle(StartCall(simulation), NoStatics).sim

\* C7 as claimed: cycle() in Stop changes neither the Sim (ticks, state,
\* configuration, cells) nor the frame-skip counter and the latched
\* configuration.
C7_StoppedCycleIsNoOp ==
    (Alive /\ simulation.state = Stop) =>
        /\ Cycle(simulation, statics).sim = simulation
        /\ Cycle(simulation, statics).statics = statics
        /\ ~Cycle(simulation, statics).updated

\* C9: construction from a loaded layout succeeds exactly when the typed
\* coordinate is inside the grid and on a cell with a code '0'..'9'; outside
\* the grid the error is the out-of-bounds one, on '/' or ':' the
\* not-on-floor one; on success that cell alone is the Emitter with density
\* 1 and every other cell has the kind of its code and density 0.
C9_Construction ==
    (last_call.op = "new" /\ LoadLayout(last_call.input[1]).ok) =>
        LET layout == LoadLayout(last_call.input[1])
            row == last_call.input[2]
            col == last_call.input[3]
            inside == row \in 0 .. (layout.rows - 1) /\ col \in 0 .. (layout.cols - 1)
            at == row * layout.cols + col
            onFloor == layout.data[at + 1] \in 48 .. 57
            kind(code) == IF code = 47 THEN Wall ELSE IF code = 58 THEN Escape ELSE Floor
        IN  /\ Alive <=> (inside /\ onFloor)
            /\ ~inside => ui_status_msg = "Emitter coordinates out of bounds."
            /\ (inside /\ ~onFloor) => ui_status_msg = "Emitter not on floor tile."
            /\ Alive =>
                /\ simulation.board.width = layout.cols
                /\ simulation.board.height = layout.rows
                /\ DOMAIN simulation.board.cells = 0 .. (layout.rows * layout.cols - 1)
                /\ \A idx \in DOMAIN simulation.board.cells :
                      IF idx = at
                      THEN /\ simulation.board.cells[idx].type = Emitter
                           /\ simulation.board.cells[idx].density = ROne
                      ELSE /\ simulation.board.cells[idx].type = kind(layout.data[idx + 1])
                           /\ simulation.board.cells[idx].density = RZero

\* A Sim has just been constructed with its emitter in the second column.
C9_Witness ==
    /\ last_call.op = "new"
    /\ Alive
    /\ last_call.input[3] = 1
    /\ simulation.board.cells[1].type = Emitter

\* C10: the Emitter cell, the only one of its kind, holds density 1.0 after
\* construction and after every sequence of calls.
C10_EmitterDensity ==
    Alive =>
        /\ Cardinality({ idx \in DOMAIN simulation.board.cells :
                            simulation.board.cells[idx].type = Emitter }) = 1
        /\ \A idx \in DOMAIN simulation.board.cells :
              simulation.board.cells[idx].type = Emitter =>
                  simulation.board.cells[idx].density = ROne

\* Two board updates have run and smoke has reached a Floor cell.
C10_Witness ==
    /\ Alive
    /\ last_call.updated
    /\ getTicks(simulation) >= 2
    /\ \E idx \in FloorCells(simulation.board) :
          RLess(RZero, simulation.board.cells[idx].density)

(***************************************************************************)
(* What the board update writes.                                           *)
(***************************************************************************)
CellsOfType(board, types) ==
    { idx \in DOMAIN board.cells : board.cells[idx].type \in types }

\* C11: the density of every Escape and every Wall cell is 0 in every state,
\* and in a grid without a Floor cell every density is the one construction
\* gave it (1 for the Emitter, 0 elsewhere), whatever calls were made.
C11_OnlyFloorDensityWritten ==
    Alive =>
        /\ \A idx \in CellsOfType(simulation.board, {Wall, Escape}) :
              simulation.board.cells[idx].density = RZero
        /\ FloorCells(simulation.board) = {} =>
              \A idx \in DOMAIN simulation.board.cells :
                  simulation.board.cells[idx].density =
                      IF simulation.board.cells[idx].type = Emitter
                      THEN ROne ELSE RZero

\* In the scenario's grid two board updates have run, the second one has
\* moved mass out of the Floor cell, whose only sink is the Escape cell, and
\* the Escape cell's density is still 0.
C11_Witness ==
    /\ ScenarioBoard
    /\ last_call.updated
    /\ getTicks(simulation) >= 2
    /\ RLess(RZero, simulation.board.cells[1].outtake)
    /\ simulation.board.cells[2].density = RZero

\* The cells with indices i and j are cardinal neighbours.
Adjacent(board, i, j) ==
    \/ /\ board.cells[i].row = board.cells[j].row
       /\ Abs(board.cells[i].col - board.cells[j].col) = 1
    \/ /\ board.cells[i].col = board.cells[j].col
       /\ Abs(board.cells[i].row - board.cells[j].row) = 1

\* C12: once a full board update has run on the board, every Wall cell has
\* density 0, intake 0 and outtake 0.
C12_WallAllZero ==
    (Alive /\ getTicks(simulation) >= 1) =>
        \A idx \in CellsOfType(simulation.board, {Wall}) :
            /\ simulation.board.cells[idx].density = RZero
            /\ simulation.board.cells[idx].intake = RZero
            /\ simulation.board.cells[idx].outtake = RZero

\* Two board updates have run on a board in which a Wall cell comes before
\* a neighbouring Floor cell in the scan, so that the Wall's scratch fields
\* were last written as the neighbour of that Floor cell, which holds smoke.
C12_Witness ==
    /\ Alive
    /\ last_call = Called("step", TRUE)
    /\ getTicks(simulation) >= 2
    /\ \E w \in CellsOfType(simulation.board, {Wall}) :
          \E f \in FloorCells(simulation.board) :
             /\ w < f
             /\ Adjacent(simulation.board, w, f)
             /\ RLess(RZero, simulation.board.cells[f].density)

(***************************************************************************)
(* The latched configuration.                                              *)
(***************************************************************************)
\* The rates and the weight mode held by a Sim or by the statics.
ConfigOf(r) ==
    Config(r.emitter_rate, r.escape_rate, r.use_precalc_weights)

\* This step is a call of cycle() or step() that ran a full board update.
UpdateStep ==
    /\ Alive
    /\ Alive'
    /\ last_call'.op \in {"cycle", "step"}
    /\ last_call'.updated

\* What C13 says of one step: a full board update scans with the latched
\* values it finds and latches the Sim's values at its end; no other step
\* changes the latched values once they are initialised.
LatchedStep ==
    /\ UpdateStep =>
          /\ simulation'.board =
                UpdatedBoard(simulation, InitStatics(simulation, statics))
          /\ ConfigOf(statics') = ConfigOf(simulation)
          /\ ConfigOf(simulation') = ConfigOf(simulation)
    /\ (statics.initialized /\ ~UpdateStep) => ConfigOf(statics') = ConfigOf(statics)

\* C13: every full board update uses the rates and the weight mode latched
\* at the end of the full board update before it, so a change made between
\* two updates is not used by the second of them, and by the one after it.
C13_LatchedConfiguration == [][LatchedStep]_vars

\* In the scenario's grid the second board update has just run with the
\* 0.25 weights latched by the first one (cell 1 holds 3/8, not 3/4), while
\* the Sim is already configured for the precomputed weights.
C13_Witness ==
    /\ ScenarioBoard
    /\ ScenarioConfig
    /\ last_call.updated
    /\ getTicks(simulation) = 2
    /\ simulation.board.cells[1].density = Rat(3, 8)

(***************************************************************************)
(* The lookups of Board: cellAt applied to the boards of UpdateMade, with  *)
(* coordinates from one below the grid to one past it, and step() on them. *)
(***************************************************************************)
InitLookup ==
    /\ \E made \in UpdateMade : simulation = made.sim
    /\ statics = NoStatics
    /\ ui_status_msg = "Ready."
    /\ ui_breakpoint = 0
    /\ last_call = Called("none", FALSE)

\* board->cellAt(row, col) with int arguments, as Sim::Sim and Sim::cycle
\* call it; the history records the arguments and the index returned.
lookup(row, col) ==
    /\ last_call' = CalledWith("cellAt", FALSE,
                               <<"none", row, col,
                                 cellAt(simulation.board, ToUint(row), ToUint(col))>>)
    /\ UNCHANGED <<simulation, statics, ui_status_msg, ui_breakpoint>>

\* board->cellAt(dir, row, col) for a position of the grid.
lookupDir(dir, row, col) ==
    /\ last_call' = CalledWith("cellAt", FALSE,
                               <<dir, row, col,
                                 cellAtDir(simulation.board, dir, ToUint(row), ToUint(col))>>)
    /\ UNCHANGED <<simulation, statics, ui_status_msg, ui_breakpoint>>

NextLookup ==
    \/ \E row \in -1 .. simulation.board.height, col \in -1 .. simulation.board.width :
          lookup(row, col)
    \/ \E dir \in { directions[k] : k \in DOMAIN directions } :
          \E row \in 0 .. (simulation.board.height - 1),
             col \in 0 .. (simulation.board.width - 1) :
             lookupDir(dir, row, col)
    \/ step

SpecLookup == InitLookup /\ [][NextLookup]_vars

\* The row and the column a lookup is aimed at.
TargetRow(dir, row) ==
    CASE dir = North -> row - 1 [] dir = South -> row + 1 [] OTHER -> row

TargetCol(dir, col) ==
    CASE dir = West -> col - 1 [] dir = East -> col + 1 [] OTHER -> col

\* got is the cell of the board at (row, col), or none when (row, col) is
\* outside the grid.
RangeChecked(board, row, col, got) ==
    IF row \in 0 .. (board.height - 1) /\ col \in 0 .. (board.width - 1)
    THEN /\ got # NoCell
         /\ board.cells[got].row = row
         /\ board.cells[got].col = col
    ELSE got = NoCell

\* C14: cellAt(row, col) returns the cell with that row and column for every
\* position of the grid and none outside it; cellAt(dir, row, col) returns
\* the cell at the unit offset when it is in the grid and none otherwise
\* (North of row 0 and West of column 0 included); and the scan of a full
\* board update never misses a cell.
C14_CellAtRangeChecked ==
    /\ last_call.op = "cellAt" =>
          RangeChecked(simulation.board,
                       TargetRow(last_call.input[1], last_call.input[2]),
                       TargetCol(last_call.input[1], last_call.input[3]),
                       last_call.input[4])
    /\ last_call.op = "step" => last_call.updated

\* The neighbour to the North of a cell of row 0, or to the West of a cell
\* of column 0, has just been looked up on a board of two rows and columns.
C14_Witness ==
    /\ last_call.op = "cellAt"
    /\ simulation.board.height = 2
    /\ simulation.board.width = 2
    /\ \/ last_call.input[1] = North /\ last_call.input[2] = 0
       \/ last_call.input[1] = West /\ last_call.input[3] = 0
    /\ last_call.input[4] = NoCell

(***************************************************************************)
(* The tick counter.                                                       *)
(***************************************************************************)
\* The board and the ticks of a step that ran a full board update, or did not.
Ticked(ran) ==
    IF ran
    THEN /\ getTicks(simulation') = getTicks(simulation) + 1
         /\ simulation'.board =
               UpdatedBoard(simulation, InitStatics(simulation, statics))
    ELSE /\ getTicks(simulation') = getTicks(simulation)
         /\ simulation'.board = simulation.board

\* What C15 says of one step.
TicksStep ==
    /\ (last_call'.op = "new" /\ Alive') => getTicks(simulation') = 0
    /\ (Alive /\ last_call'.op = "cycle") => Ticked(WouldScan(simulation, statics))
    /\ (Alive /\ last_call'.op = "step") => Ticked(TRUE)
    /\ (Alive /\ last_call'.op \in {"start", "stop", "configure"}) => Ticked(FALSE)

\* C15: getTicks() is 0 for a new Sim; a call of cycle() or step() adds 1
\* to it when it runs a full board update and leaves it unchanged when it
\* does not; no other call changes it, and it never decreases.
C15_TicksCountUpdates == [][TicksStep]_vars

\* A call of cycle() on a running Sim that has ticked before has just
\* returned without a board update.
C15_Witness ==
    /\ Alive
    /\ last_call = Called("cycle", FALSE)
    /\ simulation.state = Run
    /\ getTicks(simulation) >= 1
    /\ statics.frame_skip_counter >= 1

(***************************************************************************)
(* The countdown of the frame-skip counter.                                *)
(***************************************************************************)
\* A call of cycle() on a running Sim: with the counter at 1 it runs the
\* full board update and resets the counter to tick_rate as it is then;
\* otherwise it takes 1 off the counter and does not update.
RunningCycleStep ==
    IF CounterNow = 1
    THEN /\ last_call'.updated
         /\ statics'.frame_skip_counter = simulation.tick_rate
         /\ simulation'.tick_rate = simulation.tick_rate
    ELSE /\ ~last_call'.updated
         /\ statics'.frame_skip_counter = CounterNow - 1
         /\ statics'.frame_skip_counter >= 1

\* What C16 says of one step: the countdown is as RunningCycleStep says, and
\* a write to tick_rate or to the rates leaves the counter as it is.
CountdownStep ==
    /\ (Alive /\ simulation.state = Run /\ last_call'.op = "cycle") =>
          /\ RunningCycleStep
          /\ simulation'.state = Run
    /\ (Alive /\ last_call'.op = "configure") =>
          /\ statics' = statics
          /\ simulation'.state = simulation.state

\* C16: a full board update in Run resets the frame-skip counter to the
\* tick_rate of that moment, T; while the Sim stays in Run each of the next
\* T - 1 calls of cycle() takes 1 off the counter without an update and the
\* T-th call updates, whatever is written to tick_rate in between.
C16_CounterReset == [][CountdownStep]_vars

\* tick_rate was lowered during a countdown: a call of cycle() on the
\* running Sim has just returned without an update, and the counter still
\* holds more than tick_rate.
C16_Witness ==
    /\ Alive
    /\ simulation.state = Run
    /\ last_call = Called("cycle", FALSE)
    /\ getTicks(simulation) >= 1
    /\ statics.frame_skip_counter > simulation.tick_rate

(***************************************************************************)
(* The precomputed weights.                                                *)
(***************************************************************************)
\* The number of cardinal neighbours of the cell idx whose type is in types.
NeighboursOfType(board, idx, types) ==
    Cardinality({ j \in CellsOfType(board, types) : Adjacent(board, idx, j) })

\* 1/n, or 0 when n is 0.
OneOver(n) == IF n = 0 THEN RZero ELSE Rat(1, n)

\* C17: every cell's omega_in is 1 over the number of its neighbours of type
\* Floor or Emitter and its omega_out 1 over the number of those of type
\* Floor or Escape (0 when there is none), the types being those after the
\* emitter placement; both are among 0, 1, 1/2, 1/3, 1/4.
C17_WeightPrecomputation ==
    Alive =>
        \A idx \in DOMAIN simulation.board.cells :
            /\ simulation.board.cells[idx].omega_in =
                  OneOver(NeighboursOfType(simulation.board, idx, {Floor, Emitter}))
            /\ simulation.board.cells[idx].omega_out =
                  OneOver(NeighboursOfType(simulation.board, idx, {Floor, Escape}))
            /\ simulation.board.cells[idx].omega_in
                  \in { RZero, ROne, RHalf, Rat(1, 3), RQuarter }
            /\ simulation.board.cells[idx].omega_out
                  \in { RZero, ROne, RHalf, Rat(1, 3), RQuarter }

\* A Sim has been constructed on the cross with an Escape cell, the emitter
\* at its centre: the centre has three inflow sources and four outflow sinks,
\* and the Floor cell North of it has the Emitter as its only source and no
\* sink.
C17_Witness ==
    /\ Alive
    /\ last_call.op = "none"
    /\ simulation.board.height = 3
    /\ simulation.board.cells[4].type = Emitter
    /\ simulation.board.cells[4].omega_in = Rat(1, 3)
    /\ simulation.board.cells[4].omega_out = RQuarter
    /\ simulation.board.cells[1].omega_in = ROne
    /\ simulation.board.cells[1].omega_out = RZero

(***************************************************************************)
(* The update rule of a Floor cell, as a sum over its neighbours.          *)
(***************************************************************************)
Neighbours(board, idx) ==
    { j \in DOMAIN board.cells : Adjacent(board, idx, j) }

\* The weights of the rule: omega when pw, 0.25 otherwise.
RuleOut(cell, pw) == IF pw THEN cell.omega_out ELSE RQuarter

RuleIn(cell, pw) == IF pw THEN cell.omega_in ELSE RQuarter

\* min(n_out * n.density, cur_in * (1 - cur.density))
Pull(cur, n, pw) ==
    RMin(RMul(RuleOut(n, pw), n.density),
         RMul(RuleIn(cur, pw), RSub(ROne, cur.density)))

\* The mass the neighbour n gives to cur.
Inflow(cur, n, cfg) ==
    CASE n.type = Floor -> Pull(cur, n, cfg.use_precalc_weights)
      [] n.type = Emitter ->
            RMul(cfg.emitter_rate, Pull(cur, n, cfg.use_precalc_weights))
      [] OTHER -> RZero

\* The mass cur gives to the neighbour n.
Outflow(cur, n, cfg) ==
    CASE n.type = Floor ->
            RMin(RMul(RuleOut(cur, cfg.use_precalc_weights), cur.density),
                 RMul(RuleIn(n, cfg.use_precalc_weights), RSub(ROne, n.density)))
      [] n.type = Escape ->
            RMul(cfg.escape_rate,
                 RMul(RuleOut(cur, cfg.use_precalc_weights), cur.density))
      [] OTHER -> RZero

\* Inflows minus outflows of cur over the neighbours in ns.
RECURSIVE NetFlow(_, _, _, _)
NetFlow(board, cur, ns, cfg) ==
    IF ns = {} THEN RZero
    ELSE LET n == CHOOSE j \in ns : TRUE
         IN  RAdd(RSub(Inflow(board.cells[cur], board.cells[n], cfg),
                       Outflow(board.cells[cur], board.cells[n], cfg)),
                  NetFlow(board, cur, ns \ {n}, cfg))

FloorRule(board, cur, cfg) ==
    RAdd(board.cells[cur].density,
         NetFlow(board, cur, Neighbours(board, cur), cfg))

\* The rule is checked on the boards of UpdateMade with the densities of
\* StartDensities on their Floor cells, stepped, under the configurations
\* of RuleConfigs: both modes with the rates equal and different.
RuleRates == { <<ROne, ROne>>, <<RHalf, ROne>>, <<ROne, RHalf>>, <<RZero, RHalf>> }

RuleConfigs == { Config(r[1], r[2], pw) : r \in RuleRates, pw \in BOOLEAN }

InitRule ==
    /\ \E made \in UpdateMade :
          \E dens \in [ FloorCells(made.sim.board) -> StartDensities ] :
             \E cfg \in RuleConfigs :
                simulation = Prepared(made.sim, dens, cfg)
    /\ statics = NoStatics
    /\ ui_status_msg = "Ready."
    /\ ui_breakpoint = 0
    /\ last_call = Called("none", FALSE)

SpecRule == InitRule /\ [][step]_vars

\* C18: the density the update of a Floor cell leaves in it is its density
\* plus the inflows minus the outflows of the rule, for the cells' densities
\* as they are when the cell is updated and for both weight modes.
C18_FloorUpdateRule ==
    Alive =>
        \A cur \in FloorCells(simulation.board) :
            UpdateCell(simulation.board, cur, simulation.emitter_rate,
                       simulation.escape_rate,
                       simulation.use_precalc_weights).cells[cur].density
              = FloorRule(simulation.board, cur, ConfigOf(simulation))

\* A board update has run on the cross with an Escape cell whose centre is
\* a Floor cell with the Emitter, two Floor cells and the Escape cell around
\* it; the centre has taken and given mass and is partly filled.
C18_Witness ==
    /\ Alive
    /\ last_call = Called("step", TRUE)
    /\ simulation.board.height = 3
    /\ simulation.board.cells[4].type = Floor
    /\ simulation.board.cells[7].type = Escape
    /\ RLess(RZero, simulation.board.cells[4].intake)
    /\ RLess(RZero, simulation.board.cells[4].outtake)
    /\ RLess(RZero, simulation.board.cells[4].density)
    /\ RLess(simulation.board.cells[4].density, ROne)

(***************************************************************************)
(* The update in place.                                                    *)
(***************************************************************************)
\* The densities of a board, by cell.
Densities(board) == [ idx \in DOMAIN board.cells |-> board.cells[idx].density ]

\* The board the scan has made of before when it reaches the cell cur: the
\* cells scanned earlier (those to the North and West among them) as the
\* update leaves them in after, cur and the later ones as in before.
WhenReached(before, after, cur) ==
    [ before EXCEPT !.cells =
        [ idx \in DOMAIN before.cells |->
            IF idx < cur THEN after.cells[idx] ELSE before.cells[idx] ] ]

\* after is the in-place update of before under cfg.
InPlace(before, after, cfg) ==
    \A cur \in FloorCells(before) :
        after.cells[cur].density =
            FloorRule(WhenReached(before, after, cur), cur, cfg)

\* C19: in a full board update every Floor cell exchanges with the density
\* this update has already given to the cells scanned before it (its North
\* and West neighbours) and with the density from before the update of the
\* cells scanned after it (its South and East neighbours).
C19_UpdateInPlace ==
    Alive =>
        InPlace(simulation.board, UpdatedBoard(simulation, simulation),
                ConfigOf(simulation))

\* A board update has run, and the next one gives a cell another density
\* than a double-buffered update of the same board does.
C19_Witness ==
    /\ Alive
    /\ last_call = Called("step", TRUE)
    /\ Densities(UpdatedBoard(simulation, simulation)) #
          Densities(DoubleBuffered(simulation.board, simulation.emitter_rate,
                                   simulation.escape_rate,
                                   simulation.use_precalc_weights).board)

(***************************************************************************)
(* The float fields in binary32.  A float is <<m, e>> with the value       *)
(* m / 2^e: <<0, 0>> is zero, and otherwise 2^23 <= |m| < 2^24.  Every     *)
(* operation rounds its exact result to the nearest float, ties to even,   *)
(* as the build's float arithmetic does (each operation evaluated in       *)
(* binary32).  The values of the model stay far from overflow and from the *)
(* subnormal range.                                                        *)
(***************************************************************************)
RECURSIVE Pow2(_)
Pow2(n) == IF n = 0 THEN 1 ELSE 2 * Pow2(n - 1)

Sign(n) == IF n < 0 THEN -1 ELSE 1

\* The least k with mag < 2^(24 + k), for mag >= 2^23.
RECURSIVE Excess(_)
Excess(mag) == IF mag < Pow2(24) THEN 0 ELSE 1 + Excess(mag \div 2)

\* mag / 2^k rounded to the nearest integer, ties to even.
NearestEven(mag, k) ==
    LET q == mag \div Pow2(k)
        r == mag % Pow2(k)
    IN  IF 2 * r > Pow2(k) \/ (2 * r = Pow2(k) /\ q % 2 = 1) THEN q + 1 ELSE q

\* The float nearest to n / 2^e, for an integer n.
RECURSIVE FRound(_, _)
FRound(n, e) ==
    IF n = 0 THEN <<0, 0>>
    ELSE IF Abs(n) < Pow2(23) THEN FRound(2 * n, e + 1)
    ELSE LET k == Excess(Abs(n))
             q == NearestEven(Abs(n), k)
         IN  IF q = Pow2(24)
             THEN <<Sign(n) * Pow2(23), e - k - 1>>
             ELSE <<Sign(n) * q, e - k>>

FZero == <<0, 0>>
FOne == FRound(1, 0)

\* mag / 2^d rounded down, its lowest bit set when bits were lost (the
\* sticky bit of the alignment).
Aligned(mag, d) ==
    LET k == IF d > 28 THEN 28 ELSE d
        q == mag \div Pow2(k)
    IN  IF mag % Pow2(k) = 0 THEN q ELSE q + (1 - (q % 2))

\* big + small for floats with big[2] <= small[2], both not zero: small is
\* aligned to three bits below the last bit of big.
AddAligned(big, small) ==
    FRound(8 * big[1]
             + Sign(small[1]) * Aligned(8 * Abs(small[1]), small[2] - big[2]),
           big[2] + 3)

\* x + y
FAdd(x, y) ==
    IF x[1] = 0 THEN y
    ELSE IF y[1] = 0 THEN x
    ELSE IF x[2] <= y[2] THEN AddAligned(x, y) ELSE AddAligned(y, x)

FNeg(x) == <<-x[1], x[2]>>

\* x - y
FSub(x, y) == FAdd(x, FNeg(y))

\* The product of the 24-bit magnitudes a and b as <<high, low>> with the
\* value high * 2^24 + low, computed in 12-bit halves.
Product(a, b) ==
    LET ah == a \div 4096
        al == a % 4096
        bh == b \div 4096
        bl == b % 4096
        t  == (al * bl) \div 4096 + ah * bl + al * bh
    IN  <<ah * bh + t \div 4096, (t % 4096) * 4096 + ((al * bl) % 4096)>>

\* high * 2^24 + low over 2^e, rounded: high has 23 or 24 bits.
RoundProduct(sign, p, e) ==
    IF p[1] >= Pow2(23)
    THEN FRound(sign * (IF p[2] > Pow2(23) \/ (p[2] = Pow2(23) /\ p[1] % 2 = 1)
                        THEN p[1] + 1 ELSE p[1]),
                e - 24)
    ELSE LET q == 2 * p[1] + p[2] \div Pow2(23)
             r == p[2] % Pow2(23)
         IN  FRound(sign * (IF r > Pow2(22) \/ (r = Pow2(22) /\ q % 2 = 1)
                            THEN q + 1 ELSE q),
                    e - 23)

\* x * y
FMul(x, y) ==
    IF x[1] = 0 \/ y[1] = 0 THEN FZero
    ELSE RoundProduct(Sign(x[1]) * Sign(y[1]), Product(Abs(x[1]), Abs(y[1])),
                      x[2] + y[2])

\* x < y
FLess(x, y) ==
    IF x[1] = 0 THEN y[1] > 0
    ELSE IF y[1] = 0 THEN x[1] < 0
    ELSE IF Sign(x[1]) # Sign(y[1]) THEN x[1] < 0
    ELSE IF x[1] > 0
         THEN x[2] > y[2] \/ (x[2] = y[2] /\ x[1] < y[1])
         ELSE x[2] < y[2] \/ (x[2] = y[2] /\ x[1] < y[1])

\* std::min(a, b): b < a ? b : a
FMin(a, b) == IF FLess(b, a) THEN b ELSE a

\* The float of the rational r, correctly rounded: 0.f, 1.f, .25f and the
\* quotients 1.f / (float)ins of the constructor.
RECURSIVE Quotient(_, _, _)
Quotient(n, d, e) ==
    IF n = 0 THEN FZero
    ELSE IF n \div d < Pow2(23) THEN Quotient(2 * n, d, e + 1)
    ELSE LET q == n \div d
             r == n % d
         IN  FRound(IF 2 * r > d \/ (2 * r = d /\ q % 2 = 1) THEN q + 1 ELSE q, e)

Binary32(r) == Quotient(r[1], r[2], 0)

(***************************************************************************)
(* The full board update in binary32, the neighbours of the cell under     *)
(* update visited in the order dirs.                                       *)
(***************************************************************************)
\* A board and a configuration with their float fields in binary32.
Binary32Cell(cell) ==
    [ cell EXCEPT !.density = Binary32(@), !.intake = Binary32(@),
                  !.outtake = Binary32(@), !.omega_in = Binary32(@),
                  !.omega_out = Binary32(@) ]

Binary32Sim(sim) ==
    [ sim EXCEPT
        !.board.cells = [ idx \in DOMAIN sim.board.cells |->
                            Binary32Cell(sim.board.cells[idx]) ],
        !.emitter_rate = Binary32(@),
        !.escape_rate = Binary32(@) ]

\* Lines 242-251 and 261-267: the weight is omega or .25f.
Weight32(omega, use_precalc_weights) ==
    IF use_precalc_weights THEN omega ELSE Binary32(RQuarter)

\* Lines 272-291: adj->intake and adj->outtake for the Floor cell c under
\* update and its neighbour a.
AdjIntake32(c, a, cfg) ==
    CASE a.type = Floor ->
            FMin(FMul(Weight32(c.omega_out, cfg.use_precalc_weights), c.density),
                 FMul(Weight32(a.omega_in, cfg.use_precalc_weights),
                      FSub(FOne, a.density)))
      [] a.type = Escape ->
            FMul(FMul(cfg.escape_rate,
                      Weight32(c.omega_out, cfg.use_precalc_weights)),
                 c.density)
      [] OTHER -> FZero

AdjOuttake32(c, a, cfg) ==
    CASE a.type = Floor ->
            FMin(FMul(Weight32(a.omega_out, cfg.use_precalc_weights), a.density),
                 FMul(Weight32(c.omega_in, cfg.use_precalc_weights),
                      FSub(FOne, c.density)))
      [] a.type = Emitter ->
            FMul(cfg.emitter_rate,
                 FMin(FMul(Weight32(a.omega_out, cfg.use_precalc_weights),
                           a.density),
                      FMul(Weight32(c.omega_in, cfg.use_precalc_weights),
                           FSub(FOne, c.density))))
      [] OTHER -> FZero

\* Lines 292-293: cur->intake += adj->outtake; cur->outtake += adj->intake
Exchange32(board, cur, adj, adj_intake, adj_outtake) ==
    [ board EXCEPT
        !.cells[adj].intake = adj_intake,
        !.cells[adj].outtake = adj_outtake,
        !.cells[cur].intake = FAdd(@, adj_outtake),
        !.cells[cur].outtake = FAdd(@, adj_intake) ]

VisitNeighbour32(board, cur, adj, cfg) ==
    IF adj = NoCell THEN board
    ELSE Exchange32(board, cur, adj,
                    AdjIntake32(board.cells[cur], board.cells[adj], cfg),
                    AdjOuttake32(board.cells[cur], board.cells[adj], cfg))

\* Variant: the neighbours are visited in the order of `directions`
\* whatever dirs is.
RECURSIVE VisitInDeclaredOrder(_, _, _, _, _)
VisitInDeclaredOrder(board, cur, dirs, k, cfg) ==
    IF k > Len(dirs) THEN board
    ELSE VisitInDeclaredOrder(
            VisitNeighbour32(board, cur,
                             cellAtDir(board, directions[k],
                                       ToUint(board.cells[cur].row),
                                       ToUint(board.cells[cur].col)),
                             cfg),
            cur, dirs, k + 1, cfg)

\* The loop over the directions, in the order dirs, from the k-th on.
RECURSIVE VisitInOrder(_, _, _, _, _)
VisitInOrder(board, cur, dirs, k, cfg) ==
    IF k > Len(dirs) THEN board
    ELSE VisitInOrder(
            VisitNeighbour32(board, cur,
                             cellAtDir(board, dirs[k],
                                       ToUint(board.cells[cur].row),
                                       ToUint(board.cells[cur].col)),
                             cfg),
            cur, dirs, k + 1, cfg)

\* Lines 252-296 for the cell with index cur.
UpdateCell32(board, cur, dirs, cfg) ==
    LET reset == [ board EXCEPT !.cells[cur].intake = FZero,
                                !.cells[cur].outtake = FZero ]
    IN  IF board.cells[cur].type = Floor
        THEN LET visited == VisitInOrder(reset, cur, dirs, 1, cfg)
             IN  [ visited EXCEPT
                     !.cells[cur].density =
                         FAdd(@, FSub(visited.cells[cur].intake,
                                      visited.cells[cur].outtake)) ]
        ELSE reset

\* The row-major scan from position pos on.
RECURSIVE Scan32(_, _, _, _)
Scan32(board, pos, dirs, cfg) ==
    IF pos >= board.width * board.height
    THEN [ board |-> board, thrown |-> FALSE ]
    ELSE LET cur == cellAt(board, ToUint(pos \div board.width),
                           ToUint(pos % board.width))
         IN  IF cur = NoCell
             THEN [ board |-> board, thrown |-> TRUE ]
             ELSE Scan32(UpdateCell32(board, cur, dirs, cfg), pos + 1, dirs, cfg)

\* Sim::step with the float fields in binary32.
StepCall32(sim, st) ==
    StepReturn(
        Scanned([ sim EXCEPT !.state = Step ],
                InitStatics([ sim EXCEPT !.state = Step ], st),
                Scan32(sim.board, 0, directions,
                       ConfigOf(InitStatics(sim, st)))))

step32 ==
    /\ simulation # NoSim
    /\ simulation.ticks < MaxTicks
    /\ StepReturns(StepCall32(simulation, statics))
    /\ UNCHANGED <<ui_status_msg, ui_breakpoint>>

\* The simulations made on the crosses, under the configurations of
\* RuleConfigs, stepped.
CrossesMade ==
    { m \in { NewSim(3, 3, l, ToUint(row), ToUint(col)) :
                l \in Crosses, row \in 0 .. 2, col \in 0 .. 2 } : m.ok }

InitBinary32 ==
    /\ \E made \in CrossesMade :
          \E cfg \in RuleConfigs :
             simulation = Binary32Sim(Prepared(made.sim, <<>>, cfg))
    /\ statics = NoStatics
    /\ ui_status_msg = "Ready."
    /\ ui_breakpoint = 0
    /\ last_call = Called("none", FALSE)

SpecBinary32 == InitBinary32 /\ [][step32]_vars

(***************************************************************************)
(* The order of the directions.                                            *)
(***************************************************************************)
\* The orders in which the four neighbours can be visited.
DirectionOrders ==
    { dirs \in [ 1 .. 4 -> { North, South, West, East } ] :
        \A i, j \in 1 .. 4 : i # j => dirs[i] # dirs[j] }

\* What a full board update leaves in the cells: density, intake, outtake.
Observed(board) ==
    [ idx \in DOMAIN board.cells |->
        << board.cells[idx].density, board.cells[idx].intake,
           board.cells[idx].outtake >> ]

\* The full board update of the simulation, its neighbours visited in the
\* order dirs.
UpdatedInOrder(dirs) ==
    Scan32(simulation.board, 0, dirs, ConfigOf(simulation)).board

\* C20: the order of `directions` is observable.  After the first update of
\* a cross whose centre is a Floor cell with the Emitter on an arm, with
\* precalculated weights and emitter_rate 1, the centre sums three or more
\* exchanges that are not all equal, and the next update leaves another
\* density, intake or outtake in some cell when the neighbours are visited
\* in some other order than North, South, West, East: the sums
\* cur->intake and cur->outtake are rounded after every addition.
C20_DirectionOrderObservable ==
    ( /\ Alive
      /\ simulation.ticks = 1
      /\ simulation.use_precalc_weights
      /\ simulation.emitter_rate = FOne
      /\ simulation.board.cells[4].type = Floor )
    => \E dirs \in DirectionOrders :
          Observed(UpdatedInOrder(dirs)) # Observed(UpdatedInOrder(directions))

\* The first update has run on the cross with an Escape cell and the Emitter
\* on its North arm; the next update gives the centre another density when
\* its neighbours are visited South, West, East, North.
C20_Witness ==
    /\ Alive
    /\ last_call = Called("step", TRUE)
    /\ simulation.ticks = 1
    /\ simulation.use_precalc_weights
    /\ simulation.emitter_rate = FOne
    /\ simulation.board.cells[1].type = Emitter
    /\ simulation.board.cells[4].type = Floor
    /\ simulation.board.cells[7].type = Escape
    /\ UpdatedInOrder(<<South, West, East, North>>).cells[4].density #
          UpdatedInOrder(directions).cells[4].density

(***************************************************************************)
(* The static data of the board.                                           *)
(***************************************************************************)
\* What the constructors write and nothing else should: the size of the
\* board and every cell's type, cost, position and weights.
StaticData(board) ==
    [ width  |-> board.width,
      height |-> board.height,
      cells  |-> [ idx \in DOMAIN board.cells |->
                    [ type      |-> board.cells[idx].type,
                      cost      |-> board.cells[idx].cost,
                      row       |-> board.cells[idx].row,
                      col       |-> board.cells[idx].col,
                      omega_in  |-> board.cells[idx].omega_in,
                      omega_out |-> board.cells[idx].omega_out ] ] ]

\* A step of the process on a Sim that is not replaced by a new one.
SameSimStep == simulation # NoSim /\ last_call'.op # "new"

StaticStep ==
    SameSimStep =>
        /\ simulation' # NoSim
        /\ StaticData(simulation'.board) = StaticData(simulation.board)

\* C21: start(), stop(), step(), cycle() and the configuration changes leave
\* the board's width and height and every cell's type, cost, row, col,
\* omega_in and omega_out as the constructor made them.
C21_StaticDataUnchanged == [][StaticStep]_vars

\* Two full board updates have run on a board with an Emitter and a Floor
\* cell that holds smoke, the last of them by cycle().
C21_Witness ==
    /\ Alive
    /\ last_call = Called("cycle", TRUE)
    /\ simulation.ticks >= 2
    /\ \E idx \in FloorCells(simulation.board) :
          /\ RLess(RZero, simulation.board.cells[idx].density)
          /\ RLess(RZero, simulation.board.cells[idx].omega_in)

(***************************************************************************)
(* step() and the throttle.                                                *)
(***************************************************************************)
\* A call on the same Sim that is not a cycle() of a running Sim.
OutsideCountdown ==
    /\ SameSimStep
    /\ ~(last_call'.op = "cycle" /\ simulation.state = Run)

\* Such a call leaves frame_skip_counter at the value it has, or, when it is
\* the first call of cycle() in the process, at the value the initialiser
\* of the static gives it.
UndisturbedStep ==
    OutsideCountdown =>
        statics'.frame_skip_counter =
            IF last_call'.op \in { "step", "cycle" }
            THEN InitStatics(simulation, statics).frame_skip_counter
            ELSE statics.frame_skip_counter

\* C22: the full board update run by step() neither decrements nor resets
\* frame_skip_counter, and neither do stop(), start(), cycle() on a stopped
\* Sim or a configuration change: a countdown in progress before stop() and
\* step() goes on from the same value after the next start().
C22_StepLeavesCounter == [][UndisturbedStep]_vars

\* step() has run a full board update in the middle of a countdown: the
\* counter is neither 0 nor tick_rate.
C22_Witness ==
    /\ Alive
    /\ last_call = Called("step", TRUE)
    /\ statics.initialized
    /\ statics.frame_skip_counter > 0
    /\ statics.frame_skip_counter < simulation.tick_rate

(***************************************************************************)
(* Progress of a running Sim.  The host calls simulation->cycle() in every *)
(* frame in which simulation is not nullptr (main.cpp, line 209): cycle is *)
(* weakly fair.                                                            *)
(***************************************************************************)
\* The host pointed at the layout file "0", a board of one cell.
FrameFile == << <<48>> >>

FrameConstructions ==
    { [ file |-> FrameFile, row |-> row, col |-> col,
        made |-> Construct(FrameFile, row, col) ] :
        row \in EmitterCoords, col \in EmitterCoords }

NextFrames ==
    \/ \E c \in FrameConstructions : NewSimulation(c)
    \/ start
    \/ stop
    \/ cycle
    \/ step
    \/ \E n \in TickRates : SetTickRate(n)

SpecFrames == Init /\ [][NextFrames]_vars /\ WF_vars(cycle)

Running == Alive /\ simulation.state = Run

\* Between two calls of cycle() the counter is in the range of the slider.
CounterInRange ==
    statics.initialized => statics.frame_skip_counter \in 1 .. MaxTickRate

\* MaxTickRate calls of cycle() on a running Sim run a full board update.
UpdateWithinMaxTickRate ==
    Running => TicksAfterCycles(MaxTickRate) > getTicks(simulation)

\* The running Sim with k ticks gets its next tick, unless it is stopped or
\* replaced.
TicksGrowFrom(k) ==
    (Running /\ getTicks(simulation) = k) ~>
        (~Running \/ getTicks(simulation) > k)

\* C23: with tick_rate in 1..MaxTickRate the counter is in 1..MaxTickRate
\* between two calls of cycle(), a running Sim is updated within MaxTickRate
\* calls of cycle(), and while it stays running and the host keeps calling
\* cycle() getTicks() grows (up to the cap of the model).
C23_Progress ==
    /\ []CounterInRange
    /\ []UpdateWithinMaxTickRate
    /\ \A k \in 0 .. (MaxTicks - 1) : TicksGrowFrom(k)

\* cycle() has given the running Sim its last tick under the cap, and the
\* counter is reset to the highest tick_rate.
C23_Witness ==
    /\ Running
    /\ last_call = Called("cycle", TRUE)
    /\ getTicks(simulation) = MaxTicks
    /\ simulation.tick_rate = MaxTickRate
    /\ statics.frame_skip_counter = MaxTickRate

(***************************************************************************)
(* Board::Board as a function of its arguments.                            *)
(***************************************************************************)
\* The values of layout[idx], a char: the ends of the range, the codes
\* around '0' and '9', and one between them.
LayoutCodes == { -128, 0, 47, 48, 53, 57, 58, 127 }

\* <<height, width>> of the boards constructed.
BoardShapes == { <<1, 1>>, <<1, 2>>, <<2, 1>>, <<2, 2>> }

\* The arguments of the constructor, drawn before the call.
InitBoard ==
    /\ simulation = NoSim
    /\ statics = NoStatics
    /\ ui_status_msg = "Ready."
    /\ ui_breakpoint = 0
    /\ \E sh \in BoardShapes :
          \E layout \in [ 1 .. (sh[1] * sh[2]) -> LayoutCodes ] :
             last_call = CalledWith("none", FALSE, <<sh[2], sh[1], layout>>)

\* new Board(width, height, layout) on the arguments drawn; the history
\* records them and the board made.
Board ==
    /\ last_call.op = "none"
    /\ last_call' = CalledWith("Board", FALSE,
                               <<last_call.input[1], last_call.input[2],
                                 last_call.input[3],
                                 NewBoard(last_call.input[1], last_call.input[2],
                                          last_call.input[3])>>)
    /\ UNCHANGED <<simulation, statics, ui_status_msg, ui_breakpoint>>

SpecBoard == InitBoard /\ [][Board]_vars

\* The cell at <<row, col>> of board is what the code makes it.
Classified(board, row, col, code) ==
    LET cell == board.cells[row * board.width + col]
        cost == code - 48
    IN  /\ cost <= -1 => cell.type = Wall /\ cell.cost = -1
        /\ cost >= 10 => cell.type = Escape /\ cell.cost = 10
        /\ cost \in 0 .. 9 => cell.type = Floor /\ cell.cost = cost
        /\ cell.row = row
        /\ cell.col = col
        /\ cell.density = RZero

\* C24: Board::Board makes a Wall with cost -1 of every code below '0', an
\* Escape with cost 10 of every code above '9' and a Floor with the cost
\* 0..9 of every digit; every cell has the row and col of its position and
\* density 0.
C24_GridClassification ==
    last_call.op = "Board" =>
        LET width == last_call.input[1]
            height == last_call.input[2]
            layout == last_call.input[3]
            board == last_call.input[4]
        IN  /\ board.width = width
            /\ board.height = height
            /\ DOMAIN board.cells = 0 .. (width * height - 1)
            /\ \A row \in 0 .. (height - 1), col \in 0 .. (width - 1) :
                  Classified(board, row, col, layout[row * width + col + 1])

\* A board of two rows has been constructed whose cells are a Wall, a Floor
\* of cost 5, an Escape, and a Wall made of a code far below '0'.
C24_Witness ==
    /\ last_call.op = "Board"
    /\ last_call.input[3] = <<47, 53, 58, -128>>
    /\ last_call.input[4].cells[0].type = Wall
    /\ last_call.input[4].cells[1].cost = 5
    /\ last_call.input[4].cells[2].type = Escape
    /\ last_call.input[4].cells[3].cost = -1
    /\ last_call.input[4].cells[3].row = 1

(***************************************************************************)
(* The host's breakpoint.                                                  *)
(***************************************************************************)
\* The breakpoints typed into the host run from -1 to MaxBreakpoint.
MaxBreakpoint == 2

BreakpointValues == -1 .. MaxBreakpoint

\* ImGui::InputInt("Breakpoint", &ui_breakpoint), shown while there is a Sim.
SetBreakpoint(b) ==
    /\ simulation # NoSim
    /\ ui_breakpoint' = b
    /\ last_call' = Called("breakpoint", FALSE)
    /\ UNCHANGED <<simulation, statics, ui_status_msg>>

NextHost ==
    \/ \E c \in FrameConstructions : NewSimulation(c)
    \/ start
    \/ stop
    \/ cycle
    \/ \E n \in TickRates : SetTickRate(n)
    \/ \E b \in BreakpointValues : SetBreakpoint(b)

SpecHost == Init /\ [][NextHost]_vars

\* The Sim is running when cycle() has returned: it was, and cycle() did
\* not throw.
StillRunning == Running /\ ~Cycle(simulation, statics).thrown

\* What C25 says of the frame's end, the step made by cycle.
BreakpointStep ==
    last_call'.op = "cycle" =>
        /\ (StillRunning /\ ui_breakpoint > 1) =>
              /\ ui_breakpoint' = ui_breakpoint - 1
              /\ simulation'.state = Run
        /\ (StillRunning /\ ui_breakpoint = 1) =>
              /\ ui_breakpoint' = 0
              /\ simulation'.state = Stop
              /\ ui_status_msg' = "Breakpoint reached."
        /\ (StillRunning /\ ui_breakpoint <= 0) =>
              /\ ui_breakpoint' = 0
              /\ simulation'.state = Run
        /\ ~StillRunning =>
              /\ ui_breakpoint' = (IF ui_breakpoint < 0 THEN 0 ELSE ui_breakpoint)
              /\ simulation'.state = Stop
        /\ ui_breakpoint' >= 0

\* C25: in a frame in which the Sim is running after cycle() a positive
\* breakpoint loses 1, whether the frame ran a full board update or not;
\* in the frame in which it gets to 0 the host calls stop(); a frame in
\* which the Sim is not running leaves a positive breakpoint alone; and at
\* the end of a frame the breakpoint is never negative.
C25_HostBreakpoint == [][BreakpointStep]_vars

\* The breakpoint has got to 0 in a frame that ran no full board update,
\* before the first tick of a Sim with a tick_rate of 2 or more: the host
\* has stopped the Sim.
C25_Witness ==
    /\ Alive
    /\ last_call = Called("cycle", FALSE)
    /\ ui_status_msg = "Breakpoint reached."
    /\ ui_breakpoint = 0
    /\ simulation.state = Stop
    /\ simulation.tick_rate >= 2
    /\ getTicks(simulation) = 0

====
